---- MODULE Spec2Model ----
(***************************************************************************)
(* Grant application lifecycle of src/Код/main.py: the State pattern       *)
(* (ApplicationState subclasses), the Application entity, the three        *)
(* services and the SystemFacade.                                          *)
(*                                                                         *)
(* An application is identified by its application_id; the registry        *)
(* ApplicationService.applications maps the id to the object, modelled as  *)
(* a record of its applicant_id and the class name of its state object.    *)
(* title and description are stored and never read; they are left out.     *)
(* A Python exception that leaves an operation is recorded in fault, the   *)
(* value the operation returns in ret (None for a plain return).           *)
(***************************************************************************)
EXTENDS Integers, FiniteSets, Sequences, TLC

\* ---------------------------------------------------------------- bounds
MaxApps == 2
MaxDecisions == 2

\* Python's None: the result of dict.get on a missing key, and of a return
\* without a value.  Ids start at 1, so 0 is never an id.
None == 0

\* ---------------------------------------------------------------- inputs
ApplicantIds == {1, 2}
ExpertIds == {2}
Scores == {85}
CommentTexts == {"Good work"}
FundHolderIds == {3}
NoteTexts == {"Excellent"}
Statuses == {"APPROVED", "REJECTED", "approved"}
\* ids a caller may hand to the facade: every id the registry can hold,
\* and one more, so that some id is always missing
RequestIds == 1..(MaxApps + 1)

StateNames == {"SubmittedState", "UnderReviewState", "EvaluatedState",
               "WithdrawnState", "ApprovedState", "RejectedState"}
TerminalStates == {"WithdrawnState", "ApprovedState", "RejectedState"}

VARIABLES
    applications,   \* ApplicationService.applications: id -> [applicant_id, state]
    app_next_id,    \* ApplicationService.next_id
    evaluations,    \* EvaluationService.evaluations: id -> Evaluation
    eval_next_id,   \* EvaluationService.next_id
    decisions,      \* DecisionService.decisions: id -> Decision
    dec_next_id,    \* DecisionService.next_id
    call,           \* the operation called last: its name, application, argument
    ret,            \* what that operation returned (None, or the id of the object)
    fault           \* TRUE iff that operation ended by an exception

progvars == <<applications, app_next_id, evaluations, eval_next_id,
              decisions, dec_next_id>>
vars == <<applications, app_next_id, evaluations, eval_next_id,
          decisions, dec_next_id, call, ret, fault>>

\* ------------------------------------------------------- state pattern
\* Each state class is its table: the class name of the state object the
\* application holds after the method ran (the argument of set_state, or
\* the class itself where the method only prints or passes).
\* SubmittedState with evaluate moving straight to EvaluatedState
SubmittedState_EvaluateSkipsReview(op, decision) ==
    CASE op = "submit"   -> "SubmittedState"
      [] op = "review"   -> "UnderReviewState"
      [] op = "evaluate" -> "EvaluatedState"
      [] op = "withdraw" -> "WithdrawnState"
      [] op = "decide"   -> "SubmittedState"

\* SubmittedState with review only printing
SubmittedState_ReviewIgnored(op, decision) ==
    CASE op = "submit"   -> "SubmittedState"
      [] op = "review"   -> "SubmittedState"
      [] op = "evaluate" -> "SubmittedState"
      [] op = "withdraw" -> "WithdrawnState"
      [] op = "decide"   -> "SubmittedState"

SubmittedState(op, decision) ==
    CASE op = "submit"   -> "SubmittedState"
      [] op = "review"   -> "UnderReviewState"
      [] op = "evaluate" -> "SubmittedState"
      [] op = "withdraw" -> "WithdrawnState"
      [] op = "decide"   -> "SubmittedState"

\* UnderReviewState with evaluate only printing
UnderReviewState_EvaluateStays(op, decision) ==
    CASE op = "submit"   -> "UnderReviewState"
      [] op = "review"   -> "UnderReviewState"
      [] op = "evaluate" -> "UnderReviewState"
      [] op = "withdraw" -> "WithdrawnState"
      [] op = "decide"   -> "UnderReviewState"

UnderReviewState(op, decision) ==
    CASE op = "submit"   -> "UnderReviewState"
      [] op = "review"   -> "UnderReviewState"
      [] op = "evaluate" -> "EvaluatedState"
      [] op = "withdraw" -> "WithdrawnState"
      [] op = "decide"   -> "UnderReviewState"

\* EvaluatedState rejecting only on the literal "REJECTED"
EvaluatedState_LaxDecide(op, decision) ==
    CASE op = "submit"   -> "EvaluatedState"
      [] op = "review"   -> "EvaluatedState"
      [] op = "evaluate" -> "EvaluatedState"
      [] op = "withdraw" -> "EvaluatedState"
      [] op = "decide"   -> IF decision # "REJECTED" THEN "ApprovedState"
                                                     ELSE "RejectedState"

\* EvaluatedState with review sending the application back to UnderReviewState
EvaluatedState_ReviewAgain(op, decision) ==
    CASE op = "submit"   -> "EvaluatedState"
      [] op = "review"   -> "UnderReviewState"
      [] op = "evaluate" -> "EvaluatedState"
      [] op = "withdraw" -> "EvaluatedState"
      [] op = "decide"   -> IF decision = "APPROVED" THEN "ApprovedState"
                                                     ELSE "RejectedState"

\* EvaluatedState with withdraw copied from UnderReviewState
EvaluatedState_Withdrawable(op, decision) ==
    CASE op = "submit"   -> "EvaluatedState"
      [] op = "review"   -> "EvaluatedState"
      [] op = "evaluate" -> "EvaluatedState"
      [] op = "withdraw" -> "WithdrawnState"
      [] op = "decide"   -> IF decision = "APPROVED" THEN "ApprovedState"
                                                     ELSE "RejectedState"

EvaluatedState(op, decision) ==
    CASE op = "submit"   -> "EvaluatedState"
      [] op = "review"   -> "EvaluatedState"
      [] op = "evaluate" -> "EvaluatedState"
      [] op = "withdraw" -> "EvaluatedState"
      [] op = "decide"   -> IF decision = "APPROVED" THEN "ApprovedState"
                                                     ELSE "RejectedState"

\* WithdrawnState with submit filing the application again
WithdrawnState_Resubmit(op, decision) ==
    CASE op = "submit"   -> "SubmittedState"
      [] op = "review"   -> "WithdrawnState"
      [] op = "evaluate" -> "WithdrawnState"
      [] op = "withdraw" -> "WithdrawnState"
      [] op = "decide"   -> "WithdrawnState"

WithdrawnState(op, decision) ==
    CASE op = "submit"   -> "WithdrawnState"
      [] op = "review"   -> "WithdrawnState"
      [] op = "evaluate" -> "WithdrawnState"
      [] op = "withdraw" -> "WithdrawnState"
      [] op = "decide"   -> "WithdrawnState"

ApprovedState(op, decision) ==
    CASE op = "submit"   -> "ApprovedState"
      [] op = "review"   -> "ApprovedState"
      [] op = "evaluate" -> "ApprovedState"
      [] op = "withdraw" -> "ApprovedState"
      [] op = "decide"   -> "ApprovedState"

RejectedState(op, decision) ==
    CASE op = "submit"   -> "RejectedState"
      [] op = "review"   -> "RejectedState"
      [] op = "evaluate" -> "RejectedState"
      [] op = "withdraw" -> "RejectedState"
      [] op = "decide"   -> "RejectedState"

\* self.state.<op>(self, ...): dynamic dispatch on the class of the state object
Dispatch(state, op, decision) ==
    CASE state = "SubmittedState"   -> SubmittedState(op, decision)
      [] state = "UnderReviewState" -> UnderReviewState(op, decision)
      [] state = "EvaluatedState"   -> EvaluatedState(op, decision)
      [] state = "WithdrawnState"   -> WithdrawnState(op, decision)
      [] state = "ApprovedState"    -> ApprovedState(op, decision)
      [] state = "RejectedState"    -> RejectedState(op, decision)

\* --------------------------------------------------------- application
\* Application.__init__
NewApplication(applicant_id) ==
    [applicant_id |-> applicant_id, state |-> "SubmittedState"]

\* Application.get_state, in the registry apps
get_state(apps, app) == apps[app].state

\* Application.set_state
set_state(apps, app, state) == [apps EXCEPT ![app].state = state]

\* The five Application methods: the registry after app.<method>() ran.
Application_submit(apps, app) ==
    set_state(apps, app, Dispatch(get_state(apps, app), "submit", ""))

Application_start_review(apps, app) ==
    set_state(apps, app, Dispatch(get_state(apps, app), "review", ""))

Application_evaluate(apps, app) ==
    set_state(apps, app, Dispatch(get_state(apps, app), "evaluate", ""))

Application_withdraw(apps, app) ==
    set_state(apps, app, Dispatch(get_state(apps, app), "withdraw", ""))

Application_make_decision(apps, app, decision) ==
    set_state(apps, app, Dispatch(get_state(apps, app), "decide", decision))

\* Evaluation.__init__ and Decision.__init__ (the id is the key of the store)
Evaluation(application_id, expert_id, score, comments) ==
    [application_id |-> application_id, expert_id |-> expert_id,
     score |-> score, comments |-> comments]

Decision(application_id, fund_holder_id, status, notes) ==
    [application_id |-> application_id, fund_holder_id |-> fund_holder_id,
     status |-> status, notes |-> notes]

\* store[key] = value on a Python dict
Put(store, key, value) == (key :> value) @@ store

\* applications.get(application_id): None when the key is missing
Lookup(application_id) ==
    IF application_id \in DOMAIN applications THEN application_id ELSE None

\* ------------------------------------------------------------ services
\* ApplicationService.create_application: the registry with the new object
Created(applicant_id) ==
    Put(applications, app_next_id, NewApplication(applicant_id))

\* create_application without the increment of next_id
create_application_ReusesId(applicant_id) ==
    /\ applications' = Created(applicant_id)
    /\ app_next_id' = app_next_id
    /\ ret' = app_next_id
    /\ fault' = FALSE

create_application(applicant_id) ==
    /\ applications' = Created(applicant_id)
    /\ app_next_id' = app_next_id + 1
    /\ ret' = app_next_id
    /\ fault' = FALSE

\* ApplicationService.get_applications_by_applicant
get_applications_by_applicant(applicant_id) ==
    {app \in DOMAIN applications : applications[app].applicant_id = applicant_id}

\* save_evaluation taking the id before it looks at the state
save_evaluation_IdBeforeCheck(application, expert_id, score, comments, returned) ==
    IF application = None
    THEN /\ fault' = TRUE
         /\ returned = None
         /\ UNCHANGED <<applications, evaluations, eval_next_id>>
    ELSE IF get_state(applications, application) # "UnderReviewState"
    THEN /\ fault' = FALSE
         /\ returned = None
         /\ eval_next_id' = eval_next_id + 1
         /\ UNCHANGED <<applications, evaluations>>
    ELSE /\ eval_next_id' = eval_next_id + 1
         /\ evaluations' = Put(evaluations, eval_next_id,
                               Evaluation(application, expert_id, score, comments))
         /\ applications' = Application_evaluate(applications, application)
         /\ returned = eval_next_id
         /\ fault' = FALSE

\* save_evaluation without the call of application.evaluate()
save_evaluation_NoTransition(application, expert_id, score, comments, returned) ==
    IF application = None
    THEN /\ fault' = TRUE
         /\ returned = None
         /\ UNCHANGED <<applications, evaluations, eval_next_id>>
    ELSE IF get_state(applications, application) # "UnderReviewState"
    THEN /\ fault' = FALSE
         /\ returned = None
         /\ UNCHANGED <<applications, evaluations, eval_next_id>>
    ELSE /\ eval_next_id' = eval_next_id + 1
         /\ evaluations' = Put(evaluations, eval_next_id,
                               Evaluation(application, expert_id, score, comments))
         /\ applications' = applications
         /\ returned = eval_next_id
         /\ fault' = FALSE

\* EvaluationService.save_evaluation; returned is the value it returns.
\* application is an id of the registry, or None: application.state on None
\* raises AttributeError at the first line.
\* save_evaluation that prints the refusal and goes on
save_evaluation_StoresWhenRefused(application, expert_id, score, comments, returned) ==
    IF application = None
    THEN /\ fault' = TRUE
         /\ returned = None
         /\ UNCHANGED <<applications, evaluations, eval_next_id>>
    ELSE /\ eval_next_id' = eval_next_id + 1
         /\ evaluations' = Put(evaluations, eval_next_id,
                               Evaluation(application, expert_id, score, comments))
         /\ applications' = Application_evaluate(applications, application)
         /\ returned = eval_next_id
         /\ fault' = FALSE

save_evaluation(application, expert_id, score, comments, returned) ==
    IF application = None
    THEN /\ fault' = TRUE
         /\ returned = None
         /\ UNCHANGED <<applications, evaluations, eval_next_id>>
    ELSE IF get_state(applications, application) # "UnderReviewState"
    THEN /\ fault' = FALSE
         /\ returned = None
         /\ UNCHANGED <<applications, evaluations, eval_next_id>>
    ELSE /\ eval_next_id' = eval_next_id + 1
         /\ evaluations' = Put(evaluations, eval_next_id,
                               Evaluation(application, expert_id, score, comments))
         /\ applications' = Application_evaluate(applications, application)
         /\ returned = eval_next_id
         /\ fault' = FALSE

\* DecisionService.assign_experts: prints application.application_id, which
\* raises AttributeError on None
assign_experts(application, expert_ids) ==
    /\ fault' = (application = None)
    /\ ret' = None

\* save_decision comparing the status without regard to case
save_decision_CaseInsensitive(application, fund_holder_id, status, notes) ==
    /\ dec_next_id' = dec_next_id + 1
    /\ ret' = None
    /\ IF application = None
       THEN /\ fault' = TRUE
            /\ UNCHANGED <<applications, decisions>>
       ELSE /\ applications' =
                  IF status \in {"APPROVED", "approved"}
                  THEN Application_make_decision(applications, application, "APPROVED")
                  ELSE Application_make_decision(applications, application, "REJECTED")
            /\ decisions' = Put(decisions, dec_next_id,
                                Decision(application, fund_holder_id, status, notes))
            /\ fault' = FALSE

\* save_decision storing the outcome it forwards instead of the status given
save_decision_StoresOutcome(application, fund_holder_id, status, notes) ==
    /\ dec_next_id' = dec_next_id + 1
    /\ ret' = None
    /\ IF application = None
       THEN /\ fault' = TRUE
            /\ UNCHANGED <<applications, decisions>>
       ELSE /\ applications' =
                  IF status = "APPROVED"
                  THEN Application_make_decision(applications, application, "APPROVED")
                  ELSE Application_make_decision(applications, application, "REJECTED")
            /\ decisions' = Put(decisions, dec_next_id,
                                Decision(application, fund_holder_id,
                                         IF status = "APPROVED" THEN "APPROVED"
                                                                ELSE "REJECTED", notes))
            /\ fault' = FALSE

\* DecisionService.save_decision.  The id is taken before the Decision is
\* built; building it reads application.application_id, which raises
\* AttributeError on None.
\* save_decision without the increment of next_id
save_decision_ReusesId(application, fund_holder_id, status, notes) ==
    /\ dec_next_id' = dec_next_id
    /\ ret' = None
    /\ IF application = None
       THEN /\ fault' = TRUE
            /\ UNCHANGED <<applications, decisions>>
       ELSE /\ applications' =
                  IF status = "APPROVED"
                  THEN Application_make_decision(applications, application, "APPROVED")
                  ELSE Application_make_decision(applications, application, "REJECTED")
            /\ decisions' = Put(decisions, dec_next_id,
                                Decision(application, fund_holder_id, status, notes))
            /\ fault' = FALSE

\* save_decision with the two branches of the comparison exchanged
save_decision_Inverted(application, fund_holder_id, status, notes) ==
    /\ dec_next_id' = dec_next_id + 1
    /\ ret' = None
    /\ IF application = None
       THEN /\ fault' = TRUE
            /\ UNCHANGED <<applications, decisions>>
       ELSE /\ applications' =
                  IF status # "APPROVED"
                  THEN Application_make_decision(applications, application, "APPROVED")
                  ELSE Application_make_decision(applications, application, "REJECTED")
            /\ decisions' = Put(decisions, dec_next_id,
                                Decision(application, fund_holder_id, status, notes))
            /\ fault' = FALSE

save_decision(application, fund_holder_id, status, notes) ==
    /\ dec_next_id' = dec_next_id + 1
    /\ ret' = None
    /\ IF application = None
       THEN /\ fault' = TRUE
            /\ UNCHANGED <<applications, decisions>>
       ELSE /\ applications' =
                  IF status = "APPROVED"
                  THEN Application_make_decision(applications, application, "APPROVED")
                  ELSE Application_make_decision(applications, application, "REJECTED")
            /\ decisions' = Put(decisions, dec_next_id,
                                Decision(application, fund_holder_id, status, notes))
            /\ fault' = FALSE

\* ------------------------------------------------------------- callers
\* What is recorded of a call: the operation, the application (or
\* application id) it names, that application's state before the call,
\* the acting user's id and the arguments.
PreState(app) ==
    IF app \in DOMAIN applications THEN get_state(applications, app)
                                   ELSE "NoApplication"

Called(op, app, by, status, score, text) ==
    call' = [op |-> op, app |-> app, pre |-> PreState(app), by |-> by,
             status |-> status, score |-> score, text |-> text]

Plain == ret' = None /\ fault' = FALSE

\* direct calls of the Application methods on a registered application
App_submit(app) ==
    /\ app \in DOMAIN applications
    /\ applications' = Application_submit(applications, app)
    /\ Called("Application.submit", app, None, "", None, "")
    /\ Plain
    /\ UNCHANGED <<app_next_id, evaluations, eval_next_id, decisions, dec_next_id>>

App_start_review(app) ==
    /\ app \in DOMAIN applications
    /\ applications' = Application_start_review(applications, app)
    /\ Called("Application.start_review", app, None, "", None, "")
    /\ Plain
    /\ UNCHANGED <<app_next_id, evaluations, eval_next_id, decisions, dec_next_id>>

App_evaluate(app) ==
    /\ app \in DOMAIN applications
    /\ applications' = Application_evaluate(applications, app)
    /\ Called("Application.evaluate", app, None, "", None, "")
    /\ Plain
    /\ UNCHANGED <<app_next_id, evaluations, eval_next_id, decisions, dec_next_id>>

App_withdraw(app) ==
    /\ app \in DOMAIN applications
    /\ applications' = Application_withdraw(applications, app)
    /\ Called("Application.withdraw", app, None, "", None, "")
    /\ Plain
    /\ UNCHANGED <<app_next_id, evaluations, eval_next_id, decisions, dec_next_id>>

App_make_decision(app, decision) ==
    /\ app \in DOMAIN applications
    /\ applications' = Application_make_decision(applications, app, decision)
    /\ Called("Application.make_decision", app, None, decision, None, "")
    /\ Plain
    /\ UNCHANGED <<app_next_id, evaluations, eval_next_id, decisions, dec_next_id>>

\* direct calls of the services, with a registered application object
Svc_create_application(applicant_id) ==
    /\ app_next_id <= MaxApps
    /\ create_application(applicant_id)
    /\ Called("ApplicationService.create_application", app_next_id, applicant_id,
              "", None, "")
    /\ UNCHANGED <<evaluations, eval_next_id, decisions, dec_next_id>>

Svc_save_evaluation(app, expert_id, score, comments) ==
    /\ app \in DOMAIN applications
    /\ \E returned \in {None, eval_next_id} :
          /\ save_evaluation(app, expert_id, score, comments, returned)
          /\ ret' = returned
    /\ Called("EvaluationService.save_evaluation", app, expert_id, "", score, comments)
    /\ UNCHANGED <<app_next_id, decisions, dec_next_id>>

Svc_assign_experts(app, expert_id) ==
    /\ app \in DOMAIN applications
    /\ assign_experts(app, <<expert_id>>)
    /\ Called("DecisionService.assign_experts", app, None, "", None, "")
    /\ UNCHANGED progvars

Svc_save_decision(app, fund_holder_id, status, notes) ==
    /\ app \in DOMAIN applications
    /\ dec_next_id <= MaxDecisions
    /\ save_decision(app, fund_holder_id, status, notes)
    /\ Called("DecisionService.save_decision", app, fund_holder_id, status, None, notes)
    /\ UNCHANGED <<app_next_id, evaluations, eval_next_id>>

\* Decision.approve and Decision.reject overwrite the status of a Decision
\* object.  No method of the program calls them and save_decision hands the
\* object to nobody (it returns None), so they are no disjunct of Next; they
\* are what a caller holding the decision store itself could do.
Decision_approve(d) ==
    /\ d \in DOMAIN decisions
    /\ decisions' = [decisions EXCEPT ![d].status = "APPROVED"]
    /\ Called("Decision.approve", decisions[d].application_id, None, "", None, "")
    /\ Plain
    /\ UNCHANGED <<applications, app_next_id, evaluations, eval_next_id, dec_next_id>>

Decision_reject(d) ==
    /\ d \in DOMAIN decisions
    /\ decisions' = [decisions EXCEPT ![d].status = "REJECTED"]
    /\ Called("Decision.reject", decisions[d].application_id, None, "", None, "")
    /\ Plain
    /\ UNCHANGED <<applications, app_next_id, evaluations, eval_next_id, dec_next_id>>

\* -------------------------------------------------------------- facade
\* submit_application putting the new application under review
submit_application_StartsReview(applicant_id) ==
    /\ app_next_id <= MaxApps
    /\ applications' = Application_start_review(Created(applicant_id), app_next_id)
    /\ app_next_id' = app_next_id + 1
    /\ ret' = app_next_id
    /\ fault' = FALSE
    /\ Called("SystemFacade.submit_application", app_next_id, applicant_id,
              "", None, "")
    /\ UNCHANGED <<evaluations, eval_next_id, decisions, dec_next_id>>

submit_application(applicant_id) ==
    /\ app_next_id <= MaxApps
    /\ applications' = Application_submit(Created(applicant_id), app_next_id)
    /\ app_next_id' = app_next_id + 1
    /\ ret' = app_next_id
    /\ fault' = FALSE
    /\ Called("SystemFacade.submit_application", app_next_id, applicant_id,
              "", None, "")
    /\ UNCHANGED <<evaluations, eval_next_id, decisions, dec_next_id>>

view_status(applicant_id) ==
    /\ \A app \in get_applications_by_applicant(applicant_id) :
           get_state(applications, app) \in StateNames
    /\ Called("SystemFacade.view_status", None, applicant_id, "", None, "")
    /\ Plain
    /\ UNCHANGED progvars

\* withdraw_application without the comparison of the applicant ids
withdraw_application_NoOwnerCheck(applicant_id, application_id) ==
    /\ applications' =
          IF Lookup(application_id) # None
          THEN Application_withdraw(applications, Lookup(application_id))
          ELSE applications
    /\ Called("SystemFacade.withdraw_application", application_id, applicant_id,
              "", None, "")
    /\ Plain
    /\ UNCHANGED <<app_next_id, evaluations, eval_next_id, decisions, dec_next_id>>

withdraw_application(applicant_id, application_id) ==
    /\ applications' =
          IF /\ Lookup(application_id) # None
             /\ applications[Lookup(application_id)].applicant_id = applicant_id
          THEN Application_withdraw(applications, Lookup(application_id))
          ELSE applications
    /\ Called("SystemFacade.withdraw_application", application_id, applicant_id,
              "", None, "")
    /\ Plain
    /\ UNCHANGED <<app_next_id, evaluations, eval_next_id, decisions, dec_next_id>>

evaluate_application(expert_id, application_id, score, comments) ==
    /\ \E returned \in {None, eval_next_id} :
          save_evaluation(Lookup(application_id), expert_id, score, comments, returned)
    /\ ret' = None
    /\ Called("SystemFacade.evaluate_application", application_id, expert_id,
              "", score, comments)
    /\ UNCHANGED <<app_next_id, decisions, dec_next_id>>

\* assign_experts putting the application under review
Facade_assign_experts_StartsReview(fund_holder_id, application_id, expert_id) ==
    /\ assign_experts(Lookup(application_id), <<expert_id>>)
    /\ Called("SystemFacade.assign_experts", application_id, fund_holder_id,
              "", None, "")
    /\ applications' =
          IF Lookup(application_id) # None
          THEN Application_start_review(applications, Lookup(application_id))
          ELSE applications
    /\ UNCHANGED <<app_next_id, evaluations, eval_next_id, decisions, dec_next_id>>

Facade_assign_experts(fund_holder_id, application_id, expert_id) ==
    /\ assign_experts(Lookup(application_id), <<expert_id>>)
    /\ Called("SystemFacade.assign_experts", application_id, fund_holder_id,
              "", None, "")
    /\ UNCHANGED progvars

Facade_make_decision(fund_holder_id, application_id, status, notes) ==
    /\ dec_next_id <= MaxDecisions
    /\ save_decision(Lookup(application_id), fund_holder_id, status, notes)
    /\ Called("SystemFacade.make_decision", application_id, fund_holder_id,
              status, None, notes)
    /\ UNCHANGED <<app_next_id, evaluations, eval_next_id>>

\* ------------------------------------------------------- specification
Init ==
    /\ applications = << >>
    /\ app_next_id = 1
    /\ evaluations = << >>
    /\ eval_next_id = 1
    /\ decisions = << >>
    /\ dec_next_id = 1
    /\ call = [op |-> "init", app |-> None, pre |-> "NoApplication", by |-> None,
               status |-> "", score |-> None, text |-> ""]
    /\ ret = None
    /\ fault = FALSE

Next ==
    \/ \E app \in RequestIds : App_submit(app)
    \/ \E app \in RequestIds : App_start_review(app)
    \/ \E app \in RequestIds : App_evaluate(app)
    \/ \E app \in RequestIds : App_withdraw(app)
    \/ \E app \in RequestIds, d \in Statuses : App_make_decision(app, d)
    \/ \E u \in ApplicantIds : Svc_create_application(u)
    \/ \E app \in RequestIds, e \in ExpertIds, s \in Scores, c \in CommentTexts :
          Svc_save_evaluation(app, e, s, c)
    \/ \E app \in RequestIds, e \in ExpertIds : Svc_assign_experts(app, e)
    \/ \E app \in RequestIds, f \in FundHolderIds, st \in Statuses, n \in NoteTexts :
          Svc_save_decision(app, f, st, n)
    \/ \E u \in ApplicantIds : submit_application(u)
    \/ \E u \in ApplicantIds : view_status(u)
    \/ \E u \in ApplicantIds, id \in RequestIds : withdraw_application(u, id)
    \/ \E e \in ExpertIds, id \in RequestIds, s \in Scores, c \in CommentTexts :
          evaluate_application(e, id, s, c)
    \/ \E f \in FundHolderIds, id \in RequestIds, e \in ExpertIds :
          Facade_assign_experts(f, id, e)
    \/ \E f \in FundHolderIds, id \in RequestIds, st \in Statuses, n \in NoteTexts :
          Facade_make_decision(f, id, st, n)

Spec == Init /\ [][Next]_vars

\* The scenario of a new application: right after it was created
\* (create_application or submit_application) it is put under review, then
\* evaluated through the evaluation service, then decided through the
\* decision service, each call following the one before with no other call
\* in between.  Applications created earlier stay where their own scenario
\* was left.
ScenarioNext ==
    \/ \E u \in ApplicantIds : Svc_create_application(u)
    \/ \E u \in ApplicantIds : submit_application(u)
    \/ \E app \in RequestIds :
          /\ call.op \in {"ApplicationService.create_application",
                          "SystemFacade.submit_application"}
          /\ call.app = app
          /\ App_start_review(app)
    \/ \E app \in RequestIds, e \in ExpertIds, s \in Scores, c \in CommentTexts :
          /\ call.op = "Application.start_review"
          /\ call.app = app
          /\ Svc_save_evaluation(app, e, s, c)
    \/ \E app \in RequestIds, f \in FundHolderIds, st \in Statuses, n \in NoteTexts :
          /\ call.op = "EvaluationService.save_evaluation"
          /\ call.app = app
          /\ Svc_save_decision(app, f, st, n)

SpecScenario == Init /\ [][ScenarioNext]_vars

\* The callers that use the facade alone: its six operations and nothing else.
FacadeNext ==
    \/ \E u \in ApplicantIds : submit_application(u)
    \/ \E u \in ApplicantIds : view_status(u)
    \/ \E u \in ApplicantIds, id \in RequestIds : withdraw_application(u, id)
    \/ \E e \in ExpertIds, id \in RequestIds, s \in Scores, c \in CommentTexts :
          evaluate_application(e, id, s, c)
    \/ \E f \in FundHolderIds, id \in RequestIds, e \in ExpertIds :
          Facade_assign_experts(f, id, e)
    \/ \E f \in FundHolderIds, id \in RequestIds, st \in Statuses, n \in NoteTexts :
          Facade_make_decision(f, id, st, n)

SpecFacade == Init /\ [][FacadeNext]_vars

\* The callers that never call Application.evaluate themselves: the
\* evaluate transition runs through save_evaluation alone.
NoDirectEvaluateNext ==
    \/ \E app \in RequestIds : App_submit(app)
    \/ \E app \in RequestIds : App_start_review(app)
    \/ \E app \in RequestIds : App_withdraw(app)
    \/ \E app \in RequestIds, d \in Statuses : App_make_decision(app, d)
    \/ \E u \in ApplicantIds : Svc_create_application(u)
    \/ \E app \in RequestIds, e \in ExpertIds, s \in Scores, c \in CommentTexts :
          Svc_save_evaluation(app, e, s, c)
    \/ \E app \in RequestIds, e \in ExpertIds : Svc_assign_experts(app, e)
    \/ \E app \in RequestIds, f \in FundHolderIds, st \in Statuses, n \in NoteTexts :
          Svc_save_decision(app, f, st, n)
    \/ \E u \in ApplicantIds : submit_application(u)
    \/ \E u \in ApplicantIds : view_status(u)
    \/ \E u \in ApplicantIds, id \in RequestIds : withdraw_application(u, id)
    \/ \E e \in ExpertIds, id \in RequestIds, s \in Scores, c \in CommentTexts :
          evaluate_application(e, id, s, c)
    \/ \E f \in FundHolderIds, id \in RequestIds, e \in ExpertIds :
          Facade_assign_experts(f, id, e)
    \/ \E f \in FundHolderIds, id \in RequestIds, st \in Statuses, n \in NoteTexts :
          Facade_make_decision(f, id, st, n)

SpecNoDirectEvaluate == Init /\ [][NoDirectEvaluateNext]_vars

\* The callers that never call Application.make_decision themselves: the
\* decide transition runs through save_decision alone.
NoDirectDecideNext ==
    \/ \E app \in RequestIds : App_submit(app)
    \/ \E app \in RequestIds : App_start_review(app)
    \/ \E app \in RequestIds : App_evaluate(app)
    \/ \E app \in RequestIds : App_withdraw(app)
    \/ \E u \in ApplicantIds : Svc_create_application(u)
    \/ \E app \in RequestIds, e \in ExpertIds, s \in Scores, c \in CommentTexts :
          Svc_save_evaluation(app, e, s, c)
    \/ \E app \in RequestIds, e \in ExpertIds : Svc_assign_experts(app, e)
    \/ \E app \in RequestIds, f \in FundHolderIds, st \in Statuses, n \in NoteTexts :
          Svc_save_decision(app, f, st, n)
    \/ \E u \in ApplicantIds : submit_application(u)
    \/ \E u \in ApplicantIds : view_status(u)
    \/ \E u \in ApplicantIds, id \in RequestIds : withdraw_application(u, id)
    \/ \E e \in ExpertIds, id \in RequestIds, s \in Scores, c \in CommentTexts :
          evaluate_application(e, id, s, c)
    \/ \E f \in FundHolderIds, id \in RequestIds, e \in ExpertIds :
          Facade_assign_experts(f, id, e)
    \/ \E f \in FundHolderIds, id \in RequestIds, st \in Statuses, n \in NoteTexts :
          Facade_make_decision(f, id, st, n)

SpecNoDirectDecide == Init /\ [][NoDirectDecideNext]_vars

\* DecisionService.save_decision called directly, where the number of
\* decisions is bounded without ever refusing the decision of an Evaluated
\* application: a call that finds the application in another state is
\* counted against MaxDecisions, a call that finds it Evaluated is not (each
\* application is found Evaluated by at most one such call).
Live_save_decision(app, fund_holder_id, status, notes) ==
    /\ app \in DOMAIN applications
    /\ \/ get_state(applications, app) = "EvaluatedState"
       \/ dec_next_id <= MaxDecisions
    /\ save_decision(app, fund_holder_id, status, notes)
    /\ Called("DecisionService.save_decision", app, fund_holder_id, status, None, notes)
    /\ UNCHANGED <<app_next_id, evaluations, eval_next_id>>

\* The callers under which an application is carried on: applications are
\* created, put under review, evaluated and decided through the services,
\* or withdrawn, in any order and on any application.
LiveNext ==
    \/ \E u \in ApplicantIds : Svc_create_application(u)
    \/ \E app \in RequestIds : App_start_review(app)
    \/ \E app \in RequestIds : App_withdraw(app)
    \/ \E app \in RequestIds, e \in ExpertIds, s \in Scores, c \in CommentTexts :
          Svc_save_evaluation(app, e, s, c)
    \/ \E app \in RequestIds, f \in FundHolderIds, st \in Statuses, n \in NoteTexts :
          Live_save_decision(app, f, st, n)

\* start_review, save_evaluation and save_decision keep being called on
\* every application
LiveFairness ==
    \A app \in 1..MaxApps :
        /\ WF_vars(App_start_review(app))
        /\ WF_vars(\E e \in ExpertIds, s \in Scores, c \in CommentTexts :
                      Svc_save_evaluation(app, e, s, c))
        /\ WF_vars(\E f \in FundHolderIds, st \in Statuses, n \in NoteTexts :
                      Live_save_decision(app, f, st, n))

SpecLive == Init /\ [][LiveNext]_vars /\ LiveFairness

\* ------------------------------------------------------------- properties
Apps == DOMAIN applications
State(app) == applications[app].state

\* the cells of the lifecycle table that are transitions
TableTransitions ==
    {<<"SubmittedState", "Application.start_review">>,
     <<"SubmittedState", "Application.withdraw">>,
     <<"UnderReviewState", "Application.evaluate">>,
     <<"UnderReviewState", "Application.withdraw">>,
     <<"EvaluatedState", "Application.make_decision">>}

ApplicationOps ==
    {"Application.submit", "Application.start_review", "Application.evaluate",
     "Application.withdraw", "Application.make_decision"}

\* the edges of the transition diagram
Edges ==
    {<<"SubmittedState", "UnderReviewState">>, <<"UnderReviewState", "EvaluatedState">>,
     <<"EvaluatedState", "ApprovedState">>, <<"EvaluatedState", "RejectedState">>,
     <<"SubmittedState", "WithdrawnState">>, <<"UnderReviewState", "WithdrawnState">>}

\* how far along the lifecycle a state is
Rank(state) ==
    CASE state = "SubmittedState"   -> 0
      [] state = "UnderReviewState" -> 1
      [] state = "EvaluatedState"   -> 2
      [] state \in TerminalStates   -> 3

\* C1: after an Application method was called in a state whose table cell is
\* a transition, the application is in the state the table names:
\* start_review in Submitted gives UnderReview, evaluate in UnderReview gives
\* Evaluated, withdraw in Submitted or UnderReview gives Withdrawn, and
\* make_decision(d) in Evaluated gives Approved when d is exactly "APPROVED"
\* and Rejected for every other d.
C1_TransitionTable ==
    /\ (call.op = "Application.start_review" /\ call.pre = "SubmittedState")
          => State(call.app) = "UnderReviewState"
    /\ (call.op = "Application.evaluate" /\ call.pre = "UnderReviewState")
          => State(call.app) = "EvaluatedState"
    /\ (call.op = "Application.withdraw"
           /\ call.pre \in {"SubmittedState", "UnderReviewState"})
          => State(call.app) = "WithdrawnState"
    /\ (call.op = "Application.make_decision" /\ call.pre = "EvaluatedState")
          => State(call.app) = IF call.status = "APPROVED" THEN "ApprovedState"
                                                           ELSE "RejectedState"

\* make_decision("approved") was called on an Evaluated application, which is
\* now Rejected
C1_Witness ==
    /\ call.op = "Application.make_decision"
    /\ call.pre = "EvaluatedState"
    /\ call.status = "approved"
    /\ State(call.app) = "RejectedState"

\* C2: after an Application method was called in a state whose table cell is
\* not a transition, the application is in the state it was in and the call
\* raised no exception.
C2_NoOpKeepsState ==
    (call.op \in ApplicationOps /\ <<call.pre, call.op>> \notin TableTransitions)
        => (State(call.app) = call.pre /\ fault = FALSE)

\* withdraw was called on an Evaluated application, which is still Evaluated
C2_Witness ==
    /\ call.op = "Application.withdraw"
    /\ call.pre = "EvaluatedState"
    /\ State(call.app) = "EvaluatedState"
    /\ fault = FALSE

\* C3: no step of any operation changes the state of an application that is
\* Withdrawn, Approved or Rejected.
C3_TerminalAbsorbing ==
    [][\A app \in Apps :
          State(app) \in TerminalStates
              => (app \in DOMAIN applications'
                  /\ applications'[app].state = State(app))]_vars

\* save_decision("APPROVED") was called on a Withdrawn application, which is
\* still Withdrawn
C3_Witness ==
    /\ call.op = "DecisionService.save_decision"
    /\ call.pre = "WithdrawnState"
    /\ call.status = "APPROVED"
    /\ State(call.app) = "WithdrawnState"

\* C4: every change of an application's state follows an edge of the
\* transition diagram and moves it further along the lifecycle, so that no
\* state is entered again once it was left.
C4_ForwardOnly ==
    [][\A app \in Apps :
          /\ app \in DOMAIN applications'
          /\ applications'[app].state # State(app)
                => /\ <<State(app), applications'[app].state>> \in Edges
                   /\ Rank(applications'[app].state) > Rank(State(app))]_vars

\* an application went Submitted, UnderReview, Evaluated, Approved: it is
\* Approved, has an Evaluation record and the call that approved it found it
\* Evaluated
C4_Witness ==
    /\ call.op = "SystemFacade.make_decision"
    /\ call.pre = "EvaluatedState"
    /\ State(call.app) = "ApprovedState"
    /\ \E e \in DOMAIN evaluations : evaluations[e].application_id = call.app

EvaluationsOf(app) == {e \in DOMAIN evaluations : evaluations[e].application_id = app}
DecisionsOf(app) == {d \in DOMAIN decisions : decisions[d].application_id = app}

\* C5: when start_review, save_evaluation and save_decision(status) were
\* called in this order on a new application, the application is Approved if
\* status is exactly "APPROVED" and Rejected otherwise, and the stores hold
\* one Evaluation record and one Decision record of that application, the
\* Decision carrying the status given.
C5_ScenarioOutcome ==
    call.op = "DecisionService.save_decision"
        => /\ State(call.app) = IF call.status = "APPROVED" THEN "ApprovedState"
                                                            ELSE "RejectedState"
           /\ Cardinality(EvaluationsOf(call.app)) = 1
           /\ Cardinality(DecisionsOf(call.app)) = 1
           /\ \A d \in DecisionsOf(call.app) : decisions[d].status = call.status

\* the scenario ended with the status "approved" on the second application
C5_Witness ==
    /\ call.op = "DecisionService.save_decision"
    /\ call.status = "approved"
    /\ call.app = 2
    /\ State(call.app) = "RejectedState"

PastEvaluation == {"EvaluatedState", "ApprovedState", "RejectedState"}

\* C6: an application becomes Withdrawn only by a withdraw that finds it
\* Submitted or UnderReview; a withdraw that finds it Submitted or
\* UnderReview always makes it Withdrawn; and an application that is
\* Evaluated, Approved or Rejected stays among these three states.
C6_WithdrawIff ==
    [][\A app \in Apps :
          /\ app \in DOMAIN applications'
          /\ (applications'[app].state = "WithdrawnState"
                 /\ State(app) # "WithdrawnState")
                => /\ State(app) \in {"SubmittedState", "UnderReviewState"}
                   /\ call'.op \in {"Application.withdraw",
                                    "SystemFacade.withdraw_application"}
                   /\ call'.app = app
          /\ (call'.op = "Application.withdraw" /\ call'.app = app
                 /\ State(app) \in {"SubmittedState", "UnderReviewState"})
                => applications'[app].state = "WithdrawnState"
          /\ State(app) \in PastEvaluation
                => applications'[app].state \in PastEvaluation]_vars

\* withdraw was called on an application under review, which is now Withdrawn
C6_Witness ==
    /\ call.op = "Application.withdraw"
    /\ call.pre = "UnderReviewState"
    /\ State(call.app) = "WithdrawnState"

\* the calls that run save_evaluation, and those that run save_decision:
\* the service called directly, or through the facade
SaveEvaluationOps ==
    {"EvaluationService.save_evaluation", "SystemFacade.evaluate_application"}
SaveDecisionOps ==
    {"DecisionService.save_decision", "SystemFacade.make_decision"}

\* C7: a save_evaluation on an application that is not UnderReview returns
\* None, raises nothing and changes nothing: not the evaluation store, not
\* its id counter, not the state of any application, nor any other store.
C7_SaveEvaluationRefused ==
    [][\A app \in Apps :
          (call'.op \in SaveEvaluationOps /\ call'.app = app
              /\ State(app) # "UnderReviewState")
                => /\ ret' = None
                   /\ fault' = FALSE
                   /\ evaluations' = evaluations
                   /\ eval_next_id' = eval_next_id
                   /\ applications' = applications
                   /\ progvars' = progvars]_vars

\* save_evaluation was called on an application that was already Evaluated
\* and returned None, with the one earlier record in the store
C7_Witness ==
    /\ call.op = "EvaluationService.save_evaluation"
    /\ call.pre = "EvaluatedState"
    /\ ret = None
    /\ State(call.app) = "EvaluatedState"
    /\ Cardinality(DOMAIN evaluations) = 1
    /\ eval_next_id = 2

\* C8: a save_evaluation on an application that is UnderReview adds one
\* record to the evaluation store, under a new id, holding the application
\* id, expert id, score and comments given; it returns that record, leaves
\* the records stored before as they were, moves the application to
\* Evaluated and changes no other application.
C8_SaveEvaluationStores ==
    [][\A app \in Apps :
          (call'.op \in SaveEvaluationOps /\ call'.app = app
              /\ State(app) = "UnderReviewState")
                => /\ \E e \in DOMAIN evaluations' \ DOMAIN evaluations :
                         /\ DOMAIN evaluations' = DOMAIN evaluations \cup {e}
                         /\ evaluations'[e] =
                               [application_id |-> app, expert_id |-> call'.by,
                                score |-> call'.score, comments |-> call'.text]
                         /\ call'.op = "EvaluationService.save_evaluation"
                               => ret' = e
                   /\ \A e \in DOMAIN evaluations : evaluations'[e] = evaluations[e]
                   /\ fault' = FALSE
                   /\ DOMAIN applications' = Apps
                   /\ applications'[app].state = "EvaluatedState"
                   /\ \A other \in Apps \ {app} :
                         applications'[other] = applications[other]]_vars

\* save_evaluation on the second application, under review, returned the new
\* record while the first application is still Submitted
C8_Witness ==
    /\ call.op = "EvaluationService.save_evaluation"
    /\ call.pre = "UnderReviewState"
    /\ call.app = 2
    /\ ret \in DOMAIN evaluations
    /\ evaluations[ret].application_id = 2
    /\ State(2) = "EvaluatedState"
    /\ State(1) = "SubmittedState"

\* C9: a save_decision on a registered application, in whatever state, adds
\* one record to the decision store, under a new id, holding the application
\* id, fund holder id, status and notes as given, and leaves the records
\* stored before as they were; when the application is not Evaluated its
\* state stays what it was.
C9_SaveDecisionUnconditional ==
    [][\A app \in Apps :
          (call'.op \in SaveDecisionOps /\ call'.app = app)
                => /\ fault' = FALSE
                   /\ \E d \in DOMAIN decisions' \ DOMAIN decisions :
                         /\ DOMAIN decisions' = DOMAIN decisions \cup {d}
                         /\ decisions'[d] =
                               [application_id |-> app, fund_holder_id |-> call'.by,
                                status |-> call'.status, notes |-> call'.text]
                   /\ \A d \in DOMAIN decisions : decisions'[d] = decisions[d]
                   /\ State(app) # "EvaluatedState"
                         => applications' = applications]_vars

\* a Decision record with the status "approved" is stored for an application
\* that save_decision found Submitted and left Submitted
C9_Witness ==
    /\ call.op = "DecisionService.save_decision"
    /\ call.pre = "SubmittedState"
    /\ call.status = "approved"
    /\ State(call.app) = "SubmittedState"
    /\ \E d \in DecisionsOf(call.app) : decisions[d].status = "approved"

FacadeIdOps ==
    {"SystemFacade.withdraw_application", "SystemFacade.evaluate_application",
     "SystemFacade.assign_experts", "SystemFacade.make_decision"}

\* C10: a facade operation called with an application id the registry does
\* not hold raises no exception, creates no record, takes no id from any
\* counter and leaves every application as it was.
C10_MissingIdNonFatal ==
    [][(call'.op \in FacadeIdOps /\ call'.app \notin Apps)
          => (fault' = FALSE /\ progvars' = progvars)]_vars

Owner(app) == applications[app].applicant_id

\* C11: after withdraw_application was called for a registered application
\* by an applicant who does not own it, the application is in the state it
\* was in, also when that state is Submitted or UnderReview; called by the
\* owner, the application is Withdrawn if it was Submitted or UnderReview and
\* in the state it was in otherwise.  Neither call raises an exception.
C11_WithdrawOwnerOnly ==
    (call.op = "SystemFacade.withdraw_application" /\ call.app \in Apps)
        => /\ fault = FALSE
           /\ call.by # Owner(call.app) => State(call.app) = call.pre
           /\ call.by = Owner(call.app)
                 => State(call.app) =
                       IF call.pre \in {"SubmittedState", "UnderReviewState"}
                       THEN "WithdrawnState" ELSE call.pre

\* an applicant asked to withdraw another applicant's application, which was
\* under review and still is
C11_Witness ==
    /\ call.op = "SystemFacade.withdraw_application"
    /\ call.app \in Apps
    /\ call.by # Owner(call.app)
    /\ call.pre = "UnderReviewState"
    /\ State(call.app) = "UnderReviewState"

\* C12: in each of the three stores the records created so far carry the ids
\* 1, 2, ..., N: N distinct ids, given out in increasing order from 1.
C12_IdsFromOne ==
    /\ Apps = 1..Cardinality(Apps)
    /\ DOMAIN evaluations = 1..Cardinality(DOMAIN evaluations)
    /\ DOMAIN decisions = 1..Cardinality(DOMAIN decisions)

CreateOps ==
    {"ApplicationService.create_application", "SystemFacade.submit_application"}

\* C13: a step of create_application or submit_application raises nothing,
\* adds one application under an id the registry did not hold, Submitted and
\* owned by the applicant given, returns it and leaves every other
\* application as it was; and no step of any operation removes an
\* application or changes its applicant id.
C13_CreateAddsOne ==
    [][/\ call'.op \in CreateOps
            => /\ fault' = FALSE
               /\ call'.app \notin Apps
               /\ DOMAIN applications' = Apps \cup {call'.app}
               /\ applications'[call'.app] =
                     [applicant_id |-> call'.by, state |-> "SubmittedState"]
               /\ ret' = call'.app
               /\ \A app \in Apps : applications'[app] = applications[app]
       /\ \A app \in Apps :
             /\ app \in DOMAIN applications'
             /\ applications'[app].applicant_id = Owner(app)]_vars

\* submit_application created the second application, Submitted and owned by
\* applicant 2, while the first, owned by applicant 1, is Approved
C13_Witness ==
    /\ call.op = "SystemFacade.submit_application"
    /\ call.app = 2
    /\ ret = 2
    /\ applications[2] = [applicant_id |-> 2, state |-> "SubmittedState"]
    /\ applications[1] = [applicant_id |-> 1, state |-> "ApprovedState"]

AssignExpertsOps ==
    {"DecisionService.assign_experts", "SystemFacade.assign_experts"}

\* C14: a step of assign_experts for a registered application, called on the
\* service or through the facade, raises nothing and changes no
\* application, no store and no id counter.
C14_AssignExpertsNoEffect ==
    [][(call'.op \in AssignExpertsOps /\ call'.app \in Apps)
          => (fault' = FALSE /\ progvars' = progvars)]_vars

\* assign_experts was called through the facade for an application under
\* review, which is still under review
C14_Witness ==
    /\ call.op = "SystemFacade.assign_experts"
    /\ call.pre = "UnderReviewState"
    /\ State(call.app) = "UnderReviewState"
    /\ fault = FALSE

\* C15: no step of any Application, service or facade operation changes a
\* field of an Evaluation or Decision record that is in its store, or takes
\* the record out of the store.
C15_RecordsImmutable ==
    [][/\ \A e \in DOMAIN evaluations :
             e \in DOMAIN evaluations' /\ evaluations'[e] = evaluations[e]
       /\ \A d \in DOMAIN decisions :
             d \in DOMAIN decisions' /\ decisions'[d] = decisions[d]]_vars

\* a second save_decision, with another status, was called for the
\* application whose first Decision record says "REJECTED", and the store
\* holds both records
C15_Witness ==
    /\ call.op = "DecisionService.save_decision"
    /\ call.status = "APPROVED"
    /\ DOMAIN decisions = {1, 2}
    /\ decisions[1].status = "REJECTED"
    /\ decisions[2].status = "APPROVED"
    /\ decisions[1].application_id = decisions[2].application_id
    /\ DOMAIN evaluations # {}

\* C16: with the facade operations alone every application is Submitted or
\* Withdrawn and the evaluation store is empty.
C16_FacadeNeverReviews ==
    /\ \A app \in Apps : State(app) \in {"SubmittedState", "WithdrawnState"}
    /\ DOMAIN evaluations = {}

\* evaluate_application was called for a Submitted application that already
\* has a Decision record: it is still Submitted and no Evaluation is stored
C16_Witness ==
    /\ call.op = "SystemFacade.evaluate_application"
    /\ call.pre = "SubmittedState"
    /\ State(call.app) = "SubmittedState"
    /\ DecisionsOf(call.app) # {}
    /\ DOMAIN evaluations = {}

\* C17: the evaluation store holds at most one Evaluation record for each
\* application id.
C17_OneEvaluationPerApplication ==
    \A app \in Apps : Cardinality(EvaluationsOf(app)) <= 1

\* save_evaluation returned None for an Approved application that has its
\* one Evaluation record
C17_Witness ==
    /\ call.op = "EvaluationService.save_evaluation"
    /\ call.pre = "ApprovedState"
    /\ ret = None
    /\ Cardinality(EvaluationsOf(call.app)) = 1

\* C18: when Application.evaluate is called by save_evaluation alone, an
\* application is Evaluated, Approved or Rejected exactly if the evaluation
\* store holds a record with its id.
C18_EvaluatedIffRecord ==
    \A app \in Apps : (State(app) \in PastEvaluation) <=> (EvaluationsOf(app) # {})

\* one application is Rejected and has an Evaluation record, the other is
\* Withdrawn and has none
C18_Witness ==
    /\ Apps = {1, 2}
    /\ State(1) = "RejectedState" /\ EvaluationsOf(1) # {}
    /\ State(2) = "WithdrawnState" /\ EvaluationsOf(2) = {}

\* C19: when Application.make_decision is called by save_decision alone,
\* every Approved application has a Decision record with the status
\* "APPROVED" and every Rejected application has a Decision record with
\* another status.
C19_DecidedHasRecord ==
    \A app \in Apps :
        /\ State(app) = "ApprovedState"
              => \E d \in DecisionsOf(app) : decisions[d].status = "APPROVED"
        /\ State(app) = "RejectedState"
              => \E d \in DecisionsOf(app) : decisions[d].status # "APPROVED"

\* the first application is Approved and the second Rejected by the status
\* "approved", each through the facade
C19_Witness ==
    /\ Apps = {1, 2}
    /\ State(1) = "ApprovedState"
    /\ State(2) = "RejectedState"
    /\ call.op = "SystemFacade.make_decision"
    /\ call.app = 2
    /\ call.status = "approved"

\* C20: when start_review, save_evaluation and save_decision keep being
\* called on every application, every application that was created is
\* eventually Withdrawn, Approved or Rejected and stays so for ever.
C20_EveryApplicationEnds ==
    \A app \in 1..MaxApps :
        [](app \in Apps
              => <>[](app \in Apps /\ State(app) \in TerminalStates))

\* both applications went all the way through the services: the first is
\* Approved, the second was found Evaluated by save_decision and is Rejected
C20_Witness ==
    /\ Apps = {1, 2}
    /\ State(1) = "ApprovedState"
    /\ State(2) = "RejectedState"
    /\ call.op = "DecisionService.save_decision"
    /\ call.app = 2
    /\ call.pre = "EvaluatedState"
    /\ Cardinality(DOMAIN evaluations) = 2

====
